---- MODULE Spec2Model ----
(***************************************************************************)
(* GattUuid (src/src/GattUuid.h): construction of a GATT UUID from text,   *)
(* from a 16-bit or 32-bit integer or from five fields, and its string     *)
(* views.                                                                  *)
(*                                                                         *)
(* A std::string is a sequence of one-character strings.  An unsigned      *)
(* integer of w bits is the sequence of its w/4 hexadecimal digits, most   *)
(* significant first, each in 0..15 (every shift and mask of the source    *)
(* is a multiple of four bits).                                            *)
(***************************************************************************)
EXTENDS Integers, Sequences, FiniteSets

VARIABLES input, pc, uuid, bitCount, ret, threw

vars == <<input, pc, uuid, bitCount, ret, threw>>

----------------------------------------------------------------------------
(* Bounds of the explored inputs *)

\* longest run of hex characters in a generated text
MaxHexLen == 33
\* most non-hex characters inserted into a generated text
MaxDecor == 1
\* most non-zero hex digits of a generated 32-bit or 64-bit argument
MaxNonZero == 2

----------------------------------------------------------------------------
\* Characters: the ASCII codes 43 to 122, plus sign to lowercase z; each is the
\* one-character string of itself, except code 96, written "<grave>"

Ascii ==
  << "+", ",", "-", ".", "/",
     "0", "1", "2", "3", "4", "5", "6", "7", "8", "9",
     ":", ";", "<", "=", ">", "?", "@",
     "A", "B", "C", "D", "E", "F", "G", "H", "I", "J", "K", "L", "M",
     "N", "O", "P", "Q", "R", "S", "T", "U", "V", "W", "X", "Y", "Z",
     "[", "\\", "]", "^", "_", "<grave>",
     "a", "b", "c", "d", "e", "f", "g", "h", "i", "j", "k", "l", "m",
     "n", "o", "p", "q", "r", "s", "t", "u", "v", "w", "x", "y", "z" >>

Alphabet == {Ascii[i] : i \in 1..Len(Ascii)}

Ord == [c \in Alphabet |-> 42 + (CHOOSE i \in 1..Len(Ascii) : Ascii[i] = c)]

Chr(n) == Ascii[n - 42]

\* ::tolower in the "C" locale
tolower(c) == IF Ord[c] >= Ord["A"] /\ Ord[c] <= Ord["Z"] THEN Chr(Ord[c] + 32) ELSE c

Min(a, b) == IF a < b THEN a ELSE b

----------------------------------------------------------------------------
(* std::string operations *)

\* std::string::insert(pos, 1, ch); std::out_of_range when pos > size()
InsertThrows(s, pos) == pos > Len(s)

Insert(s, pos, ch) == SubSeq(s, 1, pos) \o <<ch>> \o SubSeq(s, pos + 1, Len(s))

\* std::string::substr(pos, n); std::out_of_range when pos > size()
SubstrThrows(s, pos) == pos > Len(s)

Substr(s, pos, n) == SubSeq(s, pos + 1, Min(Len(s), pos + n))

----------------------------------------------------------------------------
(* Constants of the struct *)

kGattStandardUuidPart1Prefix == <<"0", "0", "0", "0">>

kGattStandardUuidSuffix ==
  << "-", "0", "0", "0", "0", "-", "1", "0", "0", "0", "-", "8", "0", "0", "0",
     "-", "0", "0", "8", "0", "5", "f", "9", "b", "3", "4", "f", "b" >>

----------------------------------------------------------------------------
(* clean and dashify *)

\* the predicate of remove_if: TRUE for the characters that are removed
IsNotHex(c) ==
  ~ (\/ (Ord[c] >= Ord["0"] /\ Ord[c] <= Ord["9"])
     \/ (Ord[c] >= Ord["a"] /\ Ord[c] <= Ord["f"])
     \/ (Ord[c] >= Ord["A"] /\ Ord[c] <= Ord["F"]))

KeepsHex(c) == ~ IsNotHex(c)

clean(strUuid) ==
  IF strUuid = <<>> THEN strUuid
  ELSE LET cleanStr == [i \in 1..Len(strUuid) |-> tolower(strUuid[i])]
       IN  SelectSeq(cleanStr, KeepsHex)

\* dashify writing each dash over the character at its offset
dashify_Overwrite(str) ==
  LET dashed0 == clean(str)
      dashed1 == IF Len(dashed0) > 8  THEN [dashed0 EXCEPT ![9] = "-"]  ELSE dashed0
      dashed2 == IF Len(dashed1) > 13 THEN [dashed1 EXCEPT ![14] = "-"] ELSE dashed1
      dashed3 == IF Len(dashed2) > 18 THEN [dashed2 EXCEPT ![19] = "-"] ELSE dashed2
      dashed4 == IF Len(dashed3) > 23 THEN [dashed3 EXCEPT ![24] = "-"] ELSE dashed3
  IN  dashed4

\* dashify with >= in place of > in its length tests
dashify_AtLeast(str) ==
  LET dashed0 == clean(str)
      dashed1 == IF Len(dashed0) >= 8  THEN Insert(dashed0, 8, "-")  ELSE dashed0
      dashed2 == IF Len(dashed1) >= 13 THEN Insert(dashed1, 13, "-") ELSE dashed1
      dashed3 == IF Len(dashed2) >= 18 THEN Insert(dashed2, 18, "-") ELSE dashed2
      dashed4 == IF Len(dashed3) >= 23 THEN Insert(dashed3, 23, "-") ELSE dashed3
  IN  dashed4

dashify(str) ==
  LET dashed0 == clean(str)
      dashed1 == IF Len(dashed0) > 8  THEN Insert(dashed0, 8, "-")  ELSE dashed0
      dashed2 == IF Len(dashed1) > 13 THEN Insert(dashed1, 13, "-") ELSE dashed1
      dashed3 == IF Len(dashed2) > 18 THEN Insert(dashed2, 18, "-") ELSE dashed2
      dashed4 == IF Len(dashed3) > 23 THEN Insert(dashed3, 23, "-") ELSE dashed3
  IN  dashed4

\* dashify leaves by an exception when one of its inserts is out of range
dashifyThrows(str) ==
  LET dashed0 == clean(str)
      dashed1 == IF Len(dashed0) > 8  THEN Insert(dashed0, 8, "-")  ELSE dashed0
      dashed2 == IF Len(dashed1) > 13 THEN Insert(dashed1, 13, "-") ELSE dashed1
      dashed3 == IF Len(dashed2) > 18 THEN Insert(dashed2, 18, "-") ELSE dashed2
  IN  \/ Len(dashed0) > 8  /\ InsertThrows(dashed0, 8)
      \/ Len(dashed1) > 13 /\ InsertThrows(dashed1, 13)
      \/ Len(dashed2) > 18 /\ InsertThrows(dashed2, 18)
      \/ Len(dashed3) > 23 /\ InsertThrows(dashed3, 23)

----------------------------------------------------------------------------
(* Unsigned integers as hex-digit vectors, and snprintf *)

HexDigits == <<"0", "1", "2", "3", "4", "5", "6", "7", "8", "9", "a", "b", "c", "d", "e", "f">>

Zeros(n) == [i \in 1..n |-> 0]

\* v >> bits on an unsigned value of Len(v) hex digits; bits is a multiple of 4
ShiftRight(v, bits) ==
  LET k == Min(bits \div 4, Len(v))
  IN  Zeros(k) \o SubSeq(v, 1, Len(v) - k)

\* v & m, where m is the mask whose low `digits` hex digits are f
MaskLow(v, digits) ==
  [i \in 1..Len(v) |-> IF i > Len(v) - digits THEN v[i] ELSE 0]

\* conversion of v to an unsigned type of `digits` hex digits
ConvertTo(v, digits) ==
  IF Len(v) >= digits THEN SubSeq(v, Len(v) - digits + 1, Len(v))
  ELSE Zeros(digits - Len(v)) \o v

RECURSIVE Significant(_)
\* the digits of v without leading zeros (one digit for the value 0)
Significant(v) ==
  IF Len(v) > 1 /\ v[1] = 0 THEN Significant(Tail(v)) ELSE v

\* the text printf produces for "%0<width>x": at least `width` digits,
\* zero-padded on the left, never truncated
FormatHex(width, v) ==
  LET d == Significant(v)
      pad == IF Len(d) < width THEN width - Len(d) ELSE 0
  IN  [i \in 1..pad |-> "0"] \o [i \in 1..Len(d) |-> HexDigits[d[i] + 1]]

\* snprintf(buf, size, ...): at most size - 1 characters are stored
snprintf(size, text) == SubSeq(text, 1, Min(Len(text), size - 1))

----------------------------------------------------------------------------
(* Constructors: the members {uuid, bitCount} of the constructed object *)

\* the string constructor without its last branch: other lengths are kept
GattUuidFromString_NoReject(strUuid0) ==
  LET strUuid1 == clean(strUuid0)
      bits == Len(strUuid1) * 4
      strUuid2 ==
        IF bits = 16 THEN kGattStandardUuidPart1Prefix \o strUuid1 \o kGattStandardUuidSuffix
        ELSE IF bits = 32 THEN strUuid1 \o kGattStandardUuidSuffix
        ELSE strUuid1
  IN  [uuid |-> dashify(strUuid2), bitCount |-> bits]

\* the string constructor taking the bit count from the length before cleaning
GattUuidFromString_RawLength(strUuid0) ==
  LET strUuid1 == clean(strUuid0)
      bits == Len(strUuid0) * 4
      strUuid2 ==
        IF bits = 16 THEN kGattStandardUuidPart1Prefix \o strUuid1 \o kGattStandardUuidSuffix
        ELSE IF bits = 32 THEN strUuid1 \o kGattStandardUuidSuffix
        ELSE IF bits # 128 THEN <<>>
        ELSE strUuid1
      count == IF bits # 16 /\ bits # 32 /\ bits # 128 THEN 0 ELSE bits
  IN  [uuid |-> dashify(strUuid2), bitCount |-> count]

GattUuidFromString(strUuid0) ==
  LET strUuid1 == clean(strUuid0)
      bits == Len(strUuid1) * 4
      strUuid2 ==
        IF bits = 16 THEN kGattStandardUuidPart1Prefix \o strUuid1 \o kGattStandardUuidSuffix
        ELSE IF bits = 32 THEN strUuid1 \o kGattStandardUuidSuffix
        ELSE IF bits # 128 THEN <<>>
        ELSE strUuid1
      count == IF bits # 16 /\ bits # 32 /\ bits # 128 THEN 0 ELSE bits
  IN  [uuid |-> dashify(strUuid2), bitCount |-> count]

\* the string constructor leaves by an exception when its call of dashify does
GattUuidFromStringThrows(strUuid0) ==
  LET strUuid1 == clean(strUuid0)
      bits == Len(strUuid1) * 4
      strUuid2 ==
        IF bits = 16 THEN kGattStandardUuidPart1Prefix \o strUuid1 \o kGattStandardUuidSuffix
        ELSE IF bits = 32 THEN strUuid1 \o kGattStandardUuidSuffix
        ELSE IF bits # 128 THEN <<>>
        ELSE strUuid1
  IN  dashifyThrows(strUuid2)

\* GattUuid(const char *): *this = GattUuid(std::string(strUuid))
GattUuidFromCStr(strUuid) == GattUuidFromString(strUuid)

\* the 16-bit constructor formatting with "%x"
GattUuidFromUint16_Unpadded(part) ==
  LET partStr == snprintf(5, FormatHex(1, part))
  IN  [uuid |-> kGattStandardUuidPart1Prefix \o partStr \o kGattStandardUuidSuffix,
       bitCount |-> 16]

GattUuidFromUint16(part) ==
  LET partStr == snprintf(5, FormatHex(4, part))
  IN  [uuid |-> kGattStandardUuidPart1Prefix \o partStr \o kGattStandardUuidSuffix,
       bitCount |-> 16]

GattUuidFromUint32(part) ==
  LET partStr == snprintf(9, FormatHex(4, part))
  IN  [uuid |-> partStr \o kGattStandardUuidSuffix, bitCount |-> 32]

\* the five-part constructor taking the upper half of the 64-bit part5 as part5a
GattUuidFromParts_HighHalf(part1, part2, part3, part4, part5) ==
  LET part5a == ConvertTo(ShiftRight(part5, 32), 8)
      part5b == ConvertTo(MaskLow(part5, 4), 8)
      partsStr == snprintf(37,
                    FormatHex(8, part1) \o <<"-">> \o FormatHex(4, part2) \o <<"-">>
                    \o FormatHex(4, part3) \o <<"-">> \o FormatHex(4, part4) \o <<"-">>
                    \o FormatHex(8, part5a) \o FormatHex(4, part5b))
  IN  [uuid |-> partsStr, bitCount |-> 128]

GattUuidFromParts(part1, part2, part3, part4, part5) ==
  LET part5a == ConvertTo(MaskLow(ShiftRight(part5, 4), 8), 8)
      part5b == ConvertTo(MaskLow(part5, 4), 8)
      partsStr == snprintf(37,
                    FormatHex(8, part1) \o <<"-">> \o FormatHex(4, part2) \o <<"-">>
                    \o FormatHex(4, part3) \o <<"-">> \o FormatHex(4, part4) \o <<"-">>
                    \o FormatHex(8, part5a) \o FormatHex(4, part5b))
  IN  [uuid |-> partsStr, bitCount |-> 128]

----------------------------------------------------------------------------
(* Accessors *)

toString16Throws(u) == u # <<>> /\ SubstrThrows(u, 4)

toString16(u) == IF u = <<>> THEN u ELSE Substr(u, 4, 4)

toString32Throws(u) == u # <<>> /\ SubstrThrows(u, 0)

toString32(u) == IF u = <<>> THEN u ELSE Substr(u, 0, 8)

toString128(u) == u

toStringThrows(u, bc) ==
  IF bc = 16 THEN toString16Throws(u)
  ELSE IF bc = 32 THEN toString32Throws(u)
  ELSE FALSE

toString(u, bc) ==
  IF bc = 16 THEN toString16(u)
  ELSE IF bc = 32 THEN toString32(u)
  ELSE toString128(u)

----------------------------------------------------------------------------
(* Inputs *)

\* the 128-bit example of the header comment, without its dashes
ExampleHex ==
  << "0", "0", "0", "0", "1", "8", "0", "A", "0", "0", "0", "0", "1", "0", "0", "0",
     "8", "0", "0", "0", "0", "0", "8", "0", "5", "f", "9", "b", "3", "4", "f", "b" >>

\* every hex character once, in both cases
AllHex ==
  << "f", "E", "d", "C", "b", "A", "9", "8", "7", "6", "5", "4", "3", "2", "1", "0",
     "F", "e", "D", "c", "B", "a" >>

\* non-hex characters next to the hex ranges in ASCII, and the dash
DecorChars == {"-", "/", ":", "@", "G", "<grave>", "g"}

\* the first n characters of src, repeated as often as needed
Run(src, n) == [i \in 1..n |-> src[((i - 1) % Len(src)) + 1]]

\* where a non-hex character is inserted into t: in front, at the end, and at
\* the offset where the canonical form has its first dash
DecorOffsets(t) == {pos \in {0, 8, Len(t)} : pos <= Len(t)}

RECURSIVE Decorated(_, _)
\* the texts obtained from the texts of S by inserting at most k non-hex characters
Decorated(S, k) ==
  IF k = 0 THEN S
  ELSE LET T == Decorated(S, k - 1)
       IN  T \cup UNION {{Insert(t, pos, d) : pos \in DecorOffsets(t), d \in DecorChars} : t \in T}

\* the example transforms of dashify's comment (lines 258-263)
KnownTexts ==
  { << "0", "0", "0", "0", "1", "8", "0", "A", "-", "0", "0", "0", "0", "-", "1", "0", "0", "0", "-",
       "8", "0", "0", "0", "-", "0", "0", "8", "0", "5", "f", "9", "b", "3", "4", "f", "b" >>,
    << "0", "0", "0", "0", "1", "8", "0", "A", "/", "0", "0", "0", "0", ".", "1", "0", "0", "0", "_",
       "z", "z", "z", "z", "z", "z", "_", "8", "0", "0", "0", "+",
       "0", "0", "8", "0", "5", "f", "9", "b", "3", "4", "f", "b" >>,
    << "0", "0", "0", "0", "1", "8", "0", "A", ".", "0", "0", "0", "0", ".", "1", "0", "0" >>,
    << "r", "q", "z", "p" >>,
    << "2", "9", "0", "1" >> }

\* the hex digits used for 16-bit arguments
DigitSample == {0, 1, 9, 10, 15}

Uint16Inputs == [1..4 -> DigitSample]

RECURSIVE Sparse(_, _)
\* the values of `digits` hex digits with at most k non-zero digits
Sparse(digits, k) ==
  IF k = 0 THEN {Zeros(digits)}
  ELSE LET T == Sparse(digits, k - 1)
       IN  T \cup {[v EXCEPT ![i] = d] : v \in T, i \in 1..digits, d \in {1, 10}}

Uint32Inputs == Sparse(8, MaxNonZero) \cup {<<0, 0, 0, 0, 1, 8, 0, 10>>, <<1, 2, 3, 4, 10, 11, 12, 13>>}

Uint64Inputs == Sparse(16, MaxNonZero)
                  \cup {<<0, 0, 0, 0, 1, 2, 3, 4, 5, 6, 7, 8, 9, 10, 11, 12>>,
                        <<15, 14, 13, 12, 0, 0, 8, 0, 5, 15, 9, 11, 3, 4, 15, 11>>}

\* part1 .. part4 of the five-part constructor
FieldInputs ==
  { << <<0, 0, 1, 8, 0, 10, 5, 6>>, <<0, 9, 11, 12>>, <<13, 14, 15, 0>>, <<0, 0, 0, 7>> >>,
    << <<15, 15, 15, 15, 15, 15, 15, 15>>, <<15, 15, 15, 15>>, <<15, 15, 15, 15>>, <<15, 15, 15, 15>> >> }

\* a value written as text, digit by digit, in lower or upper case
Written(v, upper) ==
  [i \in 1..Len(v) |-> IF upper /\ v[i] >= 10 THEN Chr(Ord["A"] + v[i] - 10) ELSE HexDigits[v[i] + 1]]

TextInputs ==
  KnownTexts
    \cup Decorated({Run(ExampleHex, n) : n \in 0..MaxHexLen}, MaxDecor)
    \cup {Run(AllHex, n) : n \in 0..MaxHexLen}
    \cup {Written(v, upper) : v \in Uint16Inputs \cup Uint32Inputs, upper \in BOOLEAN}

Inputs ==
  {[kind |-> "text", arg |-> t] : t \in TextInputs}
    \cup {[kind |-> "uint16", arg |-> v] : v \in Uint16Inputs}
    \cup {[kind |-> "uint32", arg |-> v] : v \in Uint32Inputs}
    \cup {[kind |-> "parts", arg |-> f \o <<v>>] : f \in FieldInputs, v \in Uint64Inputs}

----------------------------------------------------------------------------
(* The object under construction and the calls made on it *)

NoCall == [fn |-> "none", val |-> <<>>]

Init ==
  /\ input \in Inputs
  /\ pc = "new"
  /\ uuid = <<>>
  /\ bitCount = 0
  /\ ret = NoCall
  /\ threw = FALSE

Construct(throws, obj) ==
  /\ pc = "new"
  /\ IF throws
       THEN pc' = "failed" /\ threw' = TRUE /\ UNCHANGED <<uuid, bitCount>>
       ELSE pc' = "constructed" /\ threw' = FALSE /\ uuid' = obj.uuid /\ bitCount' = obj.bitCount
  /\ ret' = NoCall
  /\ UNCHANGED input

ConstructFromString ==
  /\ input.kind = "text"
  /\ Construct(GattUuidFromStringThrows(input.arg), GattUuidFromString(input.arg))

ConstructFromCStr ==
  /\ input.kind = "text"
  /\ Construct(GattUuidFromStringThrows(input.arg), GattUuidFromCStr(input.arg))

ConstructFromUint16 ==
  /\ input.kind = "uint16"
  /\ Construct(FALSE, GattUuidFromUint16(input.arg))

ConstructFromUint32 ==
  /\ input.kind = "uint32"
  /\ Construct(FALSE, GattUuidFromUint32(input.arg))

ConstructFromParts ==
  /\ input.kind = "parts"
  /\ Construct(FALSE, GattUuidFromParts(input.arg[1], input.arg[2], input.arg[3], input.arg[4], input.arg[5]))

\* a const accessor called on the constructed object
Call(fn, throws, val) ==
  /\ pc = "constructed"
  /\ ~ threw
  /\ IF throws
       THEN threw' = TRUE /\ ret' = [fn |-> fn, val |-> <<>>]
       ELSE threw' = FALSE /\ ret' = [fn |-> fn, val |-> val]
  /\ UNCHANGED <<input, pc, uuid, bitCount>>

CallGetBitCount == Call("getBitCount", FALSE, bitCount)

CallToString16 == Call("toString16", toString16Throws(uuid), toString16(uuid))

CallToString32 == Call("toString32", toString32Throws(uuid), toString32(uuid))

CallToString128 == Call("toString128", FALSE, toString128(uuid))

CallToString == Call("toString", toStringThrows(uuid, bitCount), toString(uuid, bitCount))

\* the static functions, called on the raw text
StaticCall(fn, throws, val) ==
  /\ pc = "new"
  /\ ~ threw
  /\ input.kind = "text"
  /\ IF throws
       THEN threw' = TRUE /\ ret' = [fn |-> fn, val |-> <<>>]
       ELSE threw' = FALSE /\ ret' = [fn |-> fn, val |-> val]
  /\ UNCHANGED <<input, pc, uuid, bitCount>>

CallClean == StaticCall("clean", FALSE, clean(input.arg))

CallDashify == StaticCall("dashify", dashifyThrows(input.arg), dashify(input.arg))

Next ==
  \/ ConstructFromString
  \/ ConstructFromCStr
  \/ ConstructFromUint16
  \/ ConstructFromUint32
  \/ ConstructFromParts
  \/ CallGetBitCount
  \/ CallToString16
  \/ CallToString32
  \/ CallToString128
  \/ CallToString
  \/ CallClean
  \/ CallDashify

Spec == Init /\ [][Next]_vars

----------------------------------------------------------------------------
(* Vocabulary of the properties, defined without clean, dashify or snprintf *)

LowerHexChars == {"0", "1", "2", "3", "4", "5", "6", "7", "8", "9", "a", "b", "c", "d", "e", "f"}

HexChars == LowerHexChars \cup {"A", "B", "C", "D", "E", "F"}

Folded(c) ==
  CASE c = "A" -> "a" [] c = "B" -> "b" [] c = "C" -> "c"
    [] c = "D" -> "d" [] c = "E" -> "e" [] c = "F" -> "f" [] OTHER -> c

RECURSIVE HexOnly(_)
\* the hex characters of t, in order, in lower case
HexOnly(t) ==
  IF t = <<>> THEN <<>>
  ELSE IF Head(t) \in HexChars THEN <<Folded(Head(t))>> \o HexOnly(Tail(t))
  ELSE HexOnly(Tail(t))

IsHexWord(t, n) == Len(t) = n /\ \A i \in 1..n : t[i] \in HexChars

DigitValue(c) == CHOOSE d \in 0..15 : HexDigits[d + 1] = Folded(c)

\* the integer a word of hex characters denotes
HexValue(t) == [i \in 1..Len(t) |-> DigitValue(t[i])]

\* every digit of v, leading zeros included, in lower case
FixedHex(v) == [i \in 1..Len(v) |-> HexDigits[v[i] + 1]]

DashIndices == {9, 14, 19, 24}

\* xxxxxxxx-xxxx-xxxx-xxxx-xxxxxxxxxxxx in lower-case hex
WellFormed(u) ==
  /\ Len(u) = 36
  /\ \A i \in 1..Len(u) : IF i \in DashIndices THEN u[i] = "-" ELSE u[i] \in LowerHexChars

Constructed == pc = "constructed"

FromText == input.kind = "text"

----------------------------------------------------------------------------
(* C1 *)

\* C1: whichever constructor built the object, a bit count of 16, 32 or 128
\* comes with a stored uuid of 36 characters, dashes at indices 8, 13, 18, 23
\* and lower-case hex digits elsewhere; a bit count of 0 comes with the empty
\* uuid.
C1_CanonicalOrEmpty ==
  Constructed =>
    /\ bitCount \in {16, 32, 128} => WellFormed(uuid)
    /\ bitCount = 0 => uuid = <<>>

----------------------------------------------------------------------------
(* C2 *)

\* C2: a text of exactly 8 hex digits constructs the same uuid as the 32-bit
\* integer the digits denote, leading zeros included.
C2_Text8EqualsUint32 ==
  (Constructed /\ FromText /\ IsHexWord(input.arg, 8)) =>
    uuid = GattUuidFromUint32(HexValue(input.arg)).uuid

----------------------------------------------------------------------------
(* C3 *)

\* C3: a text of exactly 4 hex digits, in either case, constructs the same uuid
\* and the same bit count 16 as the 16-bit integer the digits denote, and that
\* uuid is "0000", the digits in lower case, "-0000-1000-8000-00805f9b34fb".
C3_Text4EqualsUint16 ==
  (Constructed /\ FromText /\ IsHexWord(input.arg, 4)) =>
    LET fromInt == GattUuidFromUint16(HexValue(input.arg))
    IN  /\ uuid = fromInt.uuid
        /\ bitCount = 16
        /\ fromInt.bitCount = 16
        /\ uuid = <<"0", "0", "0", "0">> \o HexOnly(input.arg) \o kGattStandardUuidSuffix

\* an upper-case 4-digit text with a leading zero has been constructed
C3_Witness ==
  /\ Constructed /\ FromText
  /\ input.arg = <<"0", "A", "F", "1">>
  /\ uuid = <<"0", "0", "0", "0", "0", "a", "f", "1">> \o kGattStandardUuidSuffix

----------------------------------------------------------------------------
(* C4 *)

\* C4: the five-part constructor yields bit count 128 and the uuid
\* AAAAAAAA-BBBB-CCCC-DDDD-EEEEEEEEEEEE: part1 as 8 digits, part2, part3 and
\* part4 as 4 digits each, and the low 48 bits of part5 as 12 digits.
C4_PartsRendered ==
  (Constructed /\ input.kind = "parts") =>
    /\ bitCount = 128
    /\ uuid = FixedHex(input.arg[1]) \o <<"-">> \o FixedHex(input.arg[2]) \o <<"-">>
              \o FixedHex(input.arg[3]) \o <<"-">> \o FixedHex(input.arg[4]) \o <<"-">>
              \o FixedHex(SubSeq(input.arg[5], 5, 16))

----------------------------------------------------------------------------
(* C5 *)

HexCount(t) == Cardinality({i \in 1..Len(t) : t[i] \in HexChars})

\* C5: construction from text never raises, and a text whose number of hex
\* characters is not 4, 8 or 32 gives bit count 0, the empty uuid, and the
\* empty string from toString, toString16, toString32 and toString128.
C5_InvalidTextIsEmpty ==
  FromText =>
    /\ pc # "failed"
    /\ (Constructed /\ HexCount(input.arg) \notin {4, 8, 32}) =>
         /\ ~ threw
         /\ bitCount = 0
         /\ uuid = <<>>
         /\ ret.fn \in {"toString", "toString16", "toString32", "toString128"} => ret.val = <<>>
         /\ ret.fn = "getBitCount" => ret.val = 0

\* toString16 has returned on an object built from a text of 31 hex characters
C5_Witness ==
  /\ Constructed /\ FromText
  /\ HexCount(input.arg) = 31
  /\ Len(input.arg) = 32
  /\ ret = [fn |-> "toString16", val |-> <<>>]

----------------------------------------------------------------------------
(* C6 *)

\* C6: whichever constructor built the object, toString returns exactly 4 hex
\* characters for bit count 16, exactly 8 hex characters and no dash for bit
\* count 32, and the whole uuid otherwise.
C6_ToStringByWidth ==
  (Constructed /\ ret.fn = "toString") =>
    /\ ~ threw
    /\ bitCount = 16 => IsHexWord(ret.val, 4)
    /\ bitCount = 32 => IsHexWord(ret.val, 8)
    /\ bitCount \notin {16, 32} => ret.val = uuid

----------------------------------------------------------------------------
(* C7 *)

\* replacements for bits 48..63 of part5
HighWords == {<<0, 0, 0, 0>>, <<0, 0, 0, 1>>, <<1, 0, 0, 0>>, <<10, 11, 12, 13>>, <<15, 15, 15, 15>>}

\* C7: in the five-part constructor, two values of part5 with the same low 48
\* bits construct the same uuid, whatever part1 .. part4 are.
C7_HighBitsIgnored ==
  (Constructed /\ input.kind = "parts") =>
    \A high \in HighWords :
      GattUuidFromParts(input.arg[1], input.arg[2], input.arg[3], input.arg[4],
                        high \o SubSeq(input.arg[5], 5, 16)).uuid = uuid

\* an object has been built from a part5 with bits set above and below bit 48
C7_Witness ==
  /\ Constructed /\ input.kind = "parts"
  /\ input.arg[5] = <<15, 14, 13, 12, 0, 0, 8, 0, 5, 15, 9, 11, 3, 4, 15, 11>>
  /\ input.arg[1] = <<0, 0, 1, 8, 0, 10, 5, 6>>

----------------------------------------------------------------------------
(* C8 *)

\* C8: cleaning the result of dashify gives the cleaned input; clean is
\* idempotent, and its result is the hex characters of the input, in their
\* order, in lower case.
C8_DashifyKeepsHex ==
  /\ (FromText /\ ret.fn = "dashify" /\ ~ threw) =>
       /\ clean(ret.val) = clean(input.arg)
       /\ SelectSeq(ret.val, LAMBDA c : c # "-") = HexOnly(input.arg)
  /\ (FromText /\ ret.fn = "clean") =>
       /\ clean(ret.val) = ret.val
       /\ \A i \in 1..Len(ret.val) : ret.val[i] \in LowerHexChars
       /\ ret.val = HexOnly(input.arg)

\* dashify has returned on the decorated 128-bit example of its comment
C8_Witness ==
  /\ FromText /\ ret.fn = "dashify"
  /\ Len(input.arg) = 43
  /\ HexCount(input.arg) = 32
  /\ Len(ret.val) = 36

----------------------------------------------------------------------------
(* C9 *)

\* other spellings of the text t
Respellings(t) ==
  {HexOnly(t), [i \in 1..Len(t) |-> Folded(t[i])], SelectSeq(t, LAMBDA c : c # "-")}
    \cup {<<"-">> \o t, t \o <<"z">>, t \o <<".", "_", "+">>}
    \cup {Insert(t, pos, "/") : pos \in {pos \in {4, 8} : pos <= Len(t)}}
    \cup {Written(HexValue(HexOnly(t)), TRUE)}

\* C9: two texts with the same cleaned form construct the same bit count and
\* the same uuid; with 32 hex characters that uuid is the fully dashed
\* lower-case form of those characters.
C9_DependsOnCleanedOnly ==
  (Constructed /\ FromText) =>
    /\ \A t \in Respellings(input.arg) :
         clean(t) = clean(input.arg) =>
           GattUuidFromString(t) = [uuid |-> uuid, bitCount |-> bitCount]
    /\ HexCount(input.arg) = 32 =>
         /\ WellFormed(uuid)
         /\ SelectSeq(uuid, LAMBDA c : c # "-") = HexOnly(input.arg)
         /\ bitCount = 128

\* the decorated 128-bit example has been constructed
C9_Witness ==
  /\ Constructed /\ FromText
  /\ Len(input.arg) = 43
  /\ HexCount(input.arg) = 32
  /\ bitCount = 128
  /\ input.arg # HexOnly(input.arg)

----------------------------------------------------------------------------
(* C10 *)

\* the number of dashes the claim gives for n cleaned characters
DashCount(n) ==
  IF n <= 8 THEN 0 ELSE IF n <= 12 THEN 1 ELSE IF n <= 16 THEN 2 ELSE IF n <= 20 THEN 3 ELSE 4

\* C10: dashify never fails; for n cleaned characters its result is the cleaned
\* text with 0, 1, 2, 3 or 4 dashes (n <= 8, 9..12, 13..16, 17..20, >= 21) at
\* offsets 8, 13, 18, 23, and it never ends with a dash.
C10_DashifyShape ==
  (FromText /\ ret.fn = "dashify") =>
    LET c == HexOnly(input.arg)
        r == ret.val
        dashes == {i \in DashIndices : i <= Len(r)}
    IN  /\ ~ threw
        /\ Len(r) = Len(c) + DashCount(Len(c))
        /\ Cardinality(dashes) = DashCount(Len(c))
        /\ \A i \in 1..Len(r) :
             IF i \in dashes THEN r[i] = "-"
             ELSE r[i] = c[i - Cardinality({j \in dashes : j < i})]
        /\ r # <<>> => r[Len(r)] # "-"
        /\ input.arg = <<"0", "0", "0", "0", "1", "8", "0", "A">> =>
             r = <<"0", "0", "0", "0", "1", "8", "0", "a">>
        /\ input.arg = <<"r", "q", "z", "p">> => r = <<>>

\* dashify has returned the partially dashed example of its comment
C10_Witness ==
  /\ FromText /\ ret.fn = "dashify"
  /\ input.arg = <<"0", "0", "0", "0", "1", "8", "0", "A", ".", "0", "0", "0", "0", ".", "1", "0", "0">>
  /\ ret.val = <<"0", "0", "0", "0", "1", "8", "0", "a", "-", "0", "0", "0", "0", "-", "1", "0", "0">>

====
